---- MODULE Spec2Model ----
(***************************************************************************)
(* Batch extraction and identity resolution of the CARE wildlife platform. *)
(*                                                                         *)
(*   - identity resolution: app/detection_model/ReID.py (main,             *)
(*     compute_distances, process_dist_mat, format_output_dict), run by    *)
(*     ReIDWorker.run of app/app_pages/DatabasePage.py;                    *)
(*   - extraction: app/app_pages/UploadPage.py (max_workers,               *)
(*     process_image_func, ImageProcessingWorker.run) with                 *)
(*     app/detection_model/detection.py and app/util/generate_thumbnail.py *)
(*                                                                         *)
(* Python indices are kept 0-based: lists indexed by position are          *)
(* functions over 0..n-1; lists that are only appended to and iterated are *)
(* sequences.                                                              *)
(***************************************************************************)
EXTENDS Integers, Sequences, FiniteSets, TLC

(***************************************************************************)
(* Bounds of the model.                                                    *)
(***************************************************************************)
MaxCrops == 4

\* Embeddings are abstracted to unit vectors in a plane at multiples of
\* 60 degrees; NumDirections is the number of such directions.
NumDirections == 6

\* Number of leading directory components of a crop path with folders; a
\* run's crop paths are either bare names or have this many.
MaxPathDepth == 2

(***************************************************************************)
(* State of the identity-resolution run.                                   *)
(***************************************************************************)
VARIABLES
    reid_pc,          \* position of ReIDWorker.run / ReID.main
    image_path_list,  \* main's argument: crop paths, 0-based; a path is the
                      \* sequence of its "/"-separated components
    embedding,        \* the embedding the model yields per crop: a direction,
                      \* or Malformed
    distance_mat,     \* rows appended so far by main (0-based)
    progress_calls,   \* values handed to progress_callback, in order
    r,                \* process_dist_mat: next row to visit
    keys,             \* process_dist_mat: owner of each index, -1 = none
    output_dict,      \* process_dist_mat: cluster id -> member list
    counter,          \* process_dist_mat: next cluster id
    reid_output,      \* value emitted by reid_finished ("none" before)
    reid_results      \* rows inserted by DatabasePage.handle_reid_finished

reid_vars == <<reid_pc, image_path_list, embedding, distance_mat,
               progress_calls, r, keys, output_dict, counter, reid_output,
               reid_results>>

(***************************************************************************)
(* State of the extraction runs.                                           *)
(***************************************************************************)
VARIABLES
    runs_active,       \* the runs that exist
    now,               \* wall clock, in ticks
    ticks,             \* number of clock advances so far
    num_cores,         \* multiprocessing.cpu_count() of the run's machine
    current_user,      \* ImageProcessingWorker.current_user
    images,            \* ImageProcessingWorker.images, 0-based
    worker_pc,         \* "ready", "collecting", "failed" or "done"
    start_time,        \* ImageProcessingWorker.start_time
    futures,           \* the run's futures, 0-based: state, timestamp, result
    collect_index,     \* i of the collecting loop: next future to collect
    processed_images,  \* ImageProcessingWorker.processed_images
    signals,           \* signals emitted by the worker, in order
    disk,              \* output directory tree: path -> task that wrote it
    image_list,        \* UploadPage.image_list
    results_handled    \* runs whose result_ready has reached its slot

(***************************************************************************)
(* State of the upload pages.  A page is named by a run identifier; page   *)
(* tells which UploadPage created a worker.                                *)
(***************************************************************************)
VARIABLES
    page,              \* the UploadPage a run's worker belongs to
    process_button,    \* per page: process_button.isEnabled()
    progress_bar,      \* per page: maximum, and the value last set
    delivered,         \* per run: progress signals handled by update_progress
    completed          \* runs whose processing_complete has reached its slot

page_vars == <<page, process_button, progress_bar, delivered, completed>>

extract_vars == <<runs_active, now, ticks, num_cores, current_user, images,
                  worker_pc, start_time, futures, collect_index,
                  processed_images, signals, disk, image_list,
                  results_handled, page_vars>>

vars == <<reid_vars, extract_vars>>

(***************************************************************************)
(* Helpers over 0-based lists.                                             *)
(***************************************************************************)
Indices(n) == 0 .. (n - 1)

Last(s) == s[Len(s)]

\* numpy.argmin / numpy.argmax over a non-empty 0-based row of length n:
\* the first index holding the minimum (maximum).
ArgMin(row, n) ==
    CHOOSE i \in Indices(n) :
        /\ \A j \in Indices(n) : row[i] <= row[j]
        /\ \A j \in Indices(n) : row[j] = row[i] => i <= j

ArgMax(row, n) ==
    CHOOSE i \in Indices(n) :
        /\ \A j \in Indices(n) : row[i] >= row[j]
        /\ \A j \in Indices(n) : row[j] = row[i] => i <= j

(***************************************************************************)
(* compute_distances.  dist = 1 - cosine_similarity.  For unit vectors at  *)
(* angles 60*a and 60*b degrees the cosine is 1, 1/2, -1/2, -1, -1/2, 1/2  *)
(* for (a - b) mod 6 = 0..5; distances are kept as twice their value so    *)
(* that they are integers: 0, 1, 3, 4, 3, 1.                               *)
(***************************************************************************)
\* The embedder is expected to yield vectors of one fixed length.  Malformed
\* stands for a vector of another length (all malformed vectors of a run
\* have the same length and direction).
Malformed == -1

\* F.cosine_similarity raises when the two vectors differ in length
SameLength(a, b) == (a = Malformed) <=> (b = Malformed)

CosineDistance(a, b) ==
    LET d == (a - b) % NumDirections
        k == IF 2 * d > NumDirections THEN NumDirections - d ELSE d
    IN  CASE k = 0 -> 0
          [] k = 1 -> 1
          [] k = 2 -> 3
          [] OTHER -> 4

\* list_of_dist before the is_duplicate step: one distance per gallery image
RawDistances(emb, n, query) ==
    [g \in Indices(n) |-> CosineDistance(emb[query], emb[g])]

\* variant: every entry equal to the minimum is overwritten
SuppressAllMinima(row, n) ==
    [g \in Indices(n) |->
        IF row[g] = row[ArgMin(row, n)] THEN row[ArgMax(row, n)] ELSE row[g]]

\* list_of_dist[np.argmin(list_of_dist)] = list_of_dist[np.argmax(list_of_dist)]
SuppressMinimum(row, n) ==
    [row EXCEPT ![ArgMin(row, n)] = row[ArgMax(row, n)]]

compute_distances(emb, n, query, is_duplicate) ==
    IF is_duplicate
    THEN SuppressMinimum(RawDistances(emb, n, query), n)
    ELSE RawDistances(emb, n, query)

\* variant: the percentage of the rows before this one
ProgressPercentOfIndex(index, n) == (index * 100) \div n

\* progress = int((index + 1) / len(image_path_list) * 100); the float
\* product truncates to this quotient for the list lengths considered
ProgressPercent(index, n) == ((index + 1) * 100) \div n

(***************************************************************************)
(* process_dist_mat: one visit of row r.  The three operators give the     *)
(* values of keys, output_dict and counter after the visit.                *)
(***************************************************************************)
MatchedIndex(mat, n, row) == ArgMin(mat[row], n)

\* variant: the 'both unassigned' branch forgets keys[matched_index]
VisitKeysMatchForgotten(k, row, m, c) ==
    IF k[row] = -1 /\ k[m] = -1 THEN [k EXCEPT ![row] = c]
    ELSE IF k[row] = -1 /\ k[m] # -1 THEN [k EXCEPT ![row] = k[m]]
    ELSE IF k[row] # -1 /\ k[m] = -1 THEN [k EXCEPT ![m] = k[row]]
    ELSE k

\* variant: an unassigned row does not take the owner of its assigned match
VisitKeysNoJoin(k, row, m, c) ==
    IF k[row] = -1 /\ k[m] = -1 THEN [[k EXCEPT ![row] = c] EXCEPT ![m] = c]
    ELSE IF k[row] # -1 /\ k[m] = -1 THEN [k EXCEPT ![m] = k[row]]
    ELSE k

\* variant: the 'both unassigned' branch forgets keys[r]
VisitKeysOwnerForgotten(k, row, m, c) ==
    IF k[row] = -1 /\ k[m] = -1 THEN [k EXCEPT ![m] = c]
    ELSE IF k[row] = -1 /\ k[m] # -1 THEN [k EXCEPT ![row] = k[m]]
    ELSE IF k[row] # -1 /\ k[m] = -1 THEN [k EXCEPT ![m] = k[row]]
    ELSE k

\* variant: an assigned row whose match is assigned too moves to the match's
\* cluster
VisitKeysRowMoves(k, row, m, c) ==
    IF k[row] = -1 /\ k[m] = -1 THEN [[k EXCEPT ![row] = c] EXCEPT ![m] = c]
    ELSE IF k[row] = -1 /\ k[m] # -1 THEN [k EXCEPT ![row] = k[m]]
    ELSE IF k[row] # -1 /\ k[m] = -1 THEN [k EXCEPT ![m] = k[row]]
    ELSE [k EXCEPT ![row] = k[m]]

VisitKeys(k, row, m, c) ==
    IF k[row] = -1 /\ k[m] = -1 THEN [[k EXCEPT ![row] = c] EXCEPT ![m] = c]
    ELSE IF k[row] = -1 /\ k[m] # -1 THEN [k EXCEPT ![row] = k[m]]
    ELSE IF k[row] # -1 /\ k[m] = -1 THEN [k EXCEPT ![m] = k[row]]
    ELSE k

\* variant: an assigned row does not add its unassigned match to its cluster
VisitDictNoAdopt(od, k, row, m, c) ==
    IF k[row] = -1 /\ k[m] = -1
        THEN [id \in DOMAIN od \cup {c} |-> IF id = c THEN <<row, m>> ELSE od[id]]
    ELSE IF k[row] = -1 /\ k[m] # -1
        THEN [od EXCEPT ![k[m]] = Append(@, row)]
    ELSE od

VisitDict(od, k, row, m, c) ==
    IF k[row] = -1 /\ k[m] = -1
        THEN [id \in DOMAIN od \cup {c} |-> IF id = c THEN <<row, m>> ELSE od[id]]
    ELSE IF k[row] = -1 /\ k[m] # -1
        THEN [od EXCEPT ![k[m]] = Append(@, row)]
    ELSE IF k[row] # -1 /\ k[m] = -1
        THEN [od EXCEPT ![k[row]] = Append(@, m)]
    ELSE od

\* variant: counter += 1 on every visit
VisitCounterEveryVisit(k, row, m, c) == c + 1

VisitCounter(k, row, m, c) ==
    IF k[row] = -1 /\ k[m] = -1 THEN c + 1 ELSE c

(***************************************************************************)
(* format_output_dict.                                                     *)
(***************************************************************************)
\* img_path.split("/")[-1]: the path made of the last component alone
ImageName(img_path) == <<Last(img_path)>>

\* variant: labels are numbered from 1
LabelFromOne(id) == <<"ID-", id + 1>>

\* "ID-" + str(id)
Label(id) == <<"ID-", id>>

\* variant: the names of a cluster are listed in reverse member order
MemberNamesReversed(paths, members) ==
    [p \in 1 .. Len(members) |->
        ImageName(paths[members[Len(members) + 1 - p]])]

MemberNames(paths, members) ==
    [p \in 1 .. Len(members) |-> ImageName(paths[members[p]])]

format_output_dict(paths, od) ==
    [lab \in {Label(id) : id \in DOMAIN od} |->
        LET id == CHOOSE i \in DOMAIN od : Label(i) = lab
        IN  MemberNames(paths, od[id])]

(***************************************************************************)
(* Inputs of an identity-resolution run.                                   *)
(***************************************************************************)
CropFile(i) == <<"crop", i>>

PathPrefix(depth) == [p \in 1 .. depth |-> IF p = depth THEN "crop_images" ELSE "tmp"]

CropPath(depth, i) == PathPrefix(depth) \o <<CropFile(i)>>

\* variant: the cluster mapping starts with an (empty) cluster 0
DictWithCluster == [id \in {0} |-> <<>>]

EmptyDict == [id \in {} |-> <<>>]

\* A ReIDWorker constructed over at most max_crops crops, their paths with
\* one of the depths, their embeddings among the given ones
ReIDInitOver(max_crops, depths, embeddings) ==
    /\ reid_pc = "start"
    /\ \E n \in 0 .. max_crops :
         /\ \E depth \in depths :
              image_path_list = [i \in Indices(n) |-> CropPath(depth, i)]
         /\ embedding \in [Indices(n) -> embeddings]
    /\ distance_mat = <<>>
    /\ progress_calls = <<>>
    /\ r = 0
    /\ keys = <<>>
    /\ output_dict = EmptyDict
    /\ counter = 0
    /\ reid_output = "none"
    /\ reid_results = {}

ReIDInit ==
    ReIDInitOver(MaxCrops, {0, MaxPathDepth},
                 Indices(NumDirections) \cup {Malformed})

NumImages == Cardinality(DOMAIN image_path_list)

(***************************************************************************)
(* ReIDWorker.run, up to the call of ReID.main: progress_updated.emit(0).  *)
(***************************************************************************)
ReIDWorkerStart ==
    /\ reid_pc = "start"
    /\ progress_calls' = Append(progress_calls, 0)
    /\ reid_pc' = "build"
    /\ UNCHANGED <<image_path_list, embedding, distance_mat, r, keys,
                   output_dict, counter, reid_output, reid_results>>
    /\ UNCHANGED extract_vars

(***************************************************************************)
(* ReID.main: one iteration of the loop that builds the distance matrix.   *)
(* An exception of compute_distances leaves main and ReIDWorker.run.       *)
(***************************************************************************)
BuildRow ==
    /\ reid_pc = "build"
    /\ LET index == Len(distance_mat) IN
         /\ index < NumImages
         /\ IF \A g \in Indices(NumImages) :
                  SameLength(embedding[index], embedding[g])
            THEN /\ distance_mat' =
                      Append(distance_mat,
                             compute_distances(embedding, NumImages, index,
                                               TRUE))
                 /\ progress_calls' =
                      Append(progress_calls,
                             ProgressPercent(index, NumImages))
                 /\ UNCHANGED reid_pc
            ELSE /\ reid_pc' = "failed"
                 /\ UNCHANGED <<distance_mat, progress_calls>>
    /\ UNCHANGED <<image_path_list, embedding, r, keys, output_dict,
                   counter, reid_output, reid_results>>
    /\ UNCHANGED extract_vars

\* dist_mat as process_dist_mat indexes it (0-based rows)
DistMat == [row \in Indices(Len(distance_mat)) |-> distance_mat[row + 1]]

(***************************************************************************)
(* process_dist_mat: entry (locals initialised), one loop iteration, and   *)
(* return followed by format_output_dict and reid_finished.emit.           *)
(***************************************************************************)
EnterProcessDistMat ==
    /\ reid_pc = "build"
    /\ Len(distance_mat) = NumImages
    /\ reid_pc' = "resolve"
    /\ output_dict' = EmptyDict
    /\ keys' = [i \in Indices(NumImages) |-> -1]
    /\ counter' = 0
    /\ r' = 0
    /\ UNCHANGED <<image_path_list, embedding, distance_mat, progress_calls,
                   reid_output, reid_results>>
    /\ UNCHANGED extract_vars

VisitRow ==
    /\ reid_pc = "resolve"
    /\ r < NumImages
    /\ LET m == MatchedIndex(DistMat, NumImages, r) IN
         /\ keys' = VisitKeys(keys, r, m, counter)
         /\ output_dict' = VisitDict(output_dict, keys, r, m, counter)
         /\ counter' = VisitCounter(keys, r, m, counter)
    /\ r' = r + 1
    /\ UNCHANGED <<reid_pc, image_path_list, embedding, distance_mat,
                   progress_calls, reid_output, reid_results>>
    /\ UNCHANGED extract_vars

FinishReID ==
    /\ reid_pc = "resolve"
    /\ r = NumImages
    /\ reid_output' = format_output_dict(image_path_list, output_dict)
    /\ reid_pc' = "done"
    /\ UNCHANGED <<image_path_list, embedding, distance_mat, progress_calls,
                   r, keys, output_dict, counter, reid_results>>
    /\ UNCHANGED extract_vars

\* the rows insert_reid_result is called with: one per cluster label and
\* position in its list (run_datetime and the looked-up id left out)
ReIDRows(output) ==
    {<<reid_id, p, output[reid_id][p]>> :
        <<reid_id, p>> \in
            UNION {{reid_id} \X (1 .. Len(output[reid_id])) :
                      reid_id \in DOMAIN output}}

\* DatabasePage.handle_reid_finished, the slot of reid_finished
handle_reid_finished ==
    /\ reid_pc = "done"
    /\ reid_results' = reid_results \cup ReIDRows(reid_output)
    /\ reid_pc' = "persisted"
    /\ UNCHANGED <<image_path_list, embedding, distance_mat, progress_calls,
                   r, keys, output_dict, counter, reid_output>>
    /\ UNCHANGED extract_vars

ReIDNext ==
    \/ ReIDWorkerStart
    \/ BuildRow
    \/ EnterProcessDistMat
    \/ VisitRow
    \/ FinishReID
    \/ handle_reid_finished

(***************************************************************************)
(* Properties of identity resolution.                                      *)
(***************************************************************************)
Occurrences(members, i) ==
    Cardinality({p \in 1 .. Len(members) : members[p] = i})

ClusterIds == DOMAIN output_dict

\* C1: for a run over n >= 1 crops the clusters returned by
\* process_dist_mat partition {0..n-1}: every index is in exactly one
\* cluster's member list, and exactly once in it.
C1_Partition ==
    (reid_pc = "done" /\ NumImages >= 1) =>
        \A i \in Indices(NumImages) :
            \E c \in ClusterIds :
                /\ Occurrences(output_dict[c], i) = 1
                /\ \A d \in ClusterIds \ {c} : Occurrences(output_dict[d], i) = 0

\* C2: in a self-pool matrix with n >= 2 rows, after suppression the first
\* minimum of row r is never at r itself.
C2_NoSelfMatch ==
    NumImages >= 2 =>
        \A row \in Indices(Len(distance_mat)) :
            ArgMin(DistMat[row], NumImages) # row

\* C10 as stated: format_output_dict has one entry per cluster id and the
\* entry of cluster c lists R[i] itself for every member i, in member order.
C10_ListsReferences ==
    reid_pc = "done" =>
        /\ DOMAIN reid_output = {Label(c) : c \in ClusterIds}
        /\ \A c \in ClusterIds :
              reid_output[Label(c)] =
                  [p \in 1 .. Len(output_dict[c]) |->
                      image_path_list[output_dict[c][p]]]

\* C10 amended: format_output_dict has one entry per cluster id, labels of
\* distinct ids are distinct, and the entry of cluster c lists, in member
\* order, the last "/"-separated component of R[i] for every member i.
C10_ListsFileNames ==
    reid_pc = "done" =>
        /\ DOMAIN reid_output = {Label(c) : c \in ClusterIds}
        /\ Cardinality(DOMAIN reid_output) = Cardinality(ClusterIds)
        /\ \A c \in ClusterIds :
              /\ Len(reid_output[Label(c)]) = Len(output_dict[c])
              /\ \A p \in 1 .. Len(output_dict[c]) :
                    LET path == image_path_list[output_dict[c][p]]
                    IN  reid_output[Label(c)][p] = <<path[Len(path)]>>

\* two clusters, one of them with two different members, paths with folders
C10_Witness ==
    /\ reid_pc = "done"
    /\ Cardinality(ClusterIds) >= 2
    /\ \E c \in ClusterIds : \E p, q \in 1 .. Len(output_dict[c]) :
          output_dict[c][p] # output_dict[c][q]
    /\ \A i \in Indices(NumImages) : Len(image_path_list[i]) > 1

\* C11: a run over a single crop A (1x1 matrix) does not raise and returns
\* exactly one cluster, "ID-0", whose member list is [A]: A listed once.
C11_SingleCrop ==
    NumImages = 1 =>
        /\ reid_pc # "failed"
        /\ reid_pc = "done" =>
              reid_output =
                  [lab \in {Label(0)} |-> <<ImageName(image_path_list[0])>>]


\* the matrix is complete and row i selects matches[i + 1], for every row i
MatchesAre(matches) ==
    /\ NumImages = Len(matches)
    /\ Len(distance_mat) = NumImages
    /\ \A row \in Indices(NumImages) :
          MatchedIndex(DistMat, NumImages, row) = matches[row + 1]

\* the name format_output_dict lists for crop i
CropName(i) == ImageName(image_path_list[i])

\* C14: four crops A, B, C, D whose rows select A->B, B->A, C->D, D->C give
\* exactly two clusters: ID-0 = [A, B] and ID-1 = [C, D].
C14_TwoPairs ==
    (reid_pc = "done" /\ MatchesAre(<<1, 0, 3, 2>>)) =>
        reid_output =
            [lab \in {Label(0), Label(1)} |->
                IF lab = Label(0) THEN <<CropName(0), CropName(1)>>
                                  ELSE <<CropName(2), CropName(3)>>]

C14_Witness ==
    /\ reid_pc = "done"
    /\ MatchesAre(<<1, 0, 3, 2>>)
    /\ DOMAIN reid_output = {Label(0), Label(1)}

\* C15: three crops A, B, C whose rows select A->B, B->C, C->B give a single
\* cluster ID-0 whose members are A, B, C in that order.
C15_Chain ==
    (reid_pc = "done" /\ MatchesAre(<<1, 2, 1>>)) =>
        reid_output =
            [lab \in {Label(0)} |-> <<CropName(0), CropName(1), CropName(2)>>]

C15_Witness ==
    /\ reid_pc = "done"
    /\ MatchesAre(<<1, 2, 1>>)
    /\ Len(output_dict[0]) = 3

\* row r is about to be visited and both its owner and the owner of its
\* match are assigned
BothAssigned ==
    /\ reid_pc = "resolve"
    /\ r < NumImages
    /\ keys[r] # -1
    /\ keys[MatchedIndex(DistMat, NumImages, r)] # -1

\* C18: a visit of a row r whose owner and whose match's owner are both
\* assigned changes nothing: the owner array, the cluster mapping and the
\* counter stay as they were, also when the two are in different clusters.
C18_FrameEffect ==
    [][BothAssigned =>
          /\ keys' = keys
          /\ output_dict' = output_dict
          /\ counter' = counter]_vars

\* the row visited last and its match are owned by different clusters
C18_Witness ==
    /\ reid_pc = "resolve"
    /\ r >= 1
    /\ LET m == MatchedIndex(DistMat, NumImages, r - 1) IN
         /\ keys[r - 1] # -1
         /\ keys[m] # -1
         /\ keys[r - 1] # keys[m]

\* the member lists of output_dict that hold index i
ClustersOf(i) ==
    {c \in ClusterIds : Occurrences(output_dict[c], i) >= 1}

\* C19: there are matrices for which some row r and its nearest match end
\* in different clusters; whenever a visited row and its match are owned by
\* different clusters after the visit, both were already assigned, to these
\* different clusters, when the row was visited.
C19_SplitOnlyWhenBothAssigned ==
    [][(reid_pc = "resolve" /\ r < NumImages) =>
          LET m == MatchedIndex(DistMat, NumImages, r) IN
            keys'[r] # keys'[m] =>
                /\ keys[r] # -1
                /\ keys[m] # -1
                /\ keys[r] = keys'[r]
                /\ keys[m] = keys'[m]]_vars

\* a finished run in which some row and its match are members of different
\* clusters
C19_Witness ==
    /\ reid_pc = "done"
    /\ \E row \in Indices(NumImages) :
          LET m == MatchedIndex(DistMat, NumImages, row) IN
            /\ ClustersOf(row) # {}
            /\ ClustersOf(m) # {}
            /\ ClustersOf(row) \cap ClustersOf(m) = {}

\* C20: process_dist_mat visits every row exactly once, in index order
\* (the pass starts at row 0, every step of the pass visits row r and moves
\* to r + 1, and the pass ends after row n - 1); after the visit of row r
\* the owner of r is assigned, as are the owners of the rows before it; when
\* the pass has ended every index has an owner.
C20_EveryRowVisitedInOrder ==
    [][/\ (reid_pc # "resolve" /\ reid_pc' = "resolve") => r' = 0
       /\ (reid_pc = "resolve" /\ reid_pc' = "resolve") =>
              /\ r < NumImages
              /\ r' = r + 1
              /\ \A i \in Indices(r') : keys'[i] # -1
       /\ (reid_pc = "resolve" /\ reid_pc' # "resolve") =>
              /\ r = NumImages
              /\ r' = r
              /\ \A i \in Indices(NumImages) : keys'[i] # -1]_vars

\* a pass over three or more rows has ended
C20_Witness ==
    /\ reid_pc = "done"
    /\ NumImages >= 3
    /\ r = NumImages
    /\ \A i \in Indices(NumImages) : keys[i] # -1

\* the positions at which built row index differs from 1 - cosine similarity
Overwritten(mat, index) ==
    {g \in Indices(NumImages) :
        mat[index + 1][g] # CosineDistance(embedding[index], embedding[g])}

\* C21: building row r with self-match suppression writes one entry of that
\* row: an entry holding the row's minimum is replaced by the row's maximum
\* value, every other entry of row r still equals 1 - cosine similarity, and
\* the rows built before are not modified.
C21_SuppressionFrame ==
    [][(reid_pc = "build" /\ distance_mat' # distance_mat) =>
          LET index == Len(distance_mat)
              raw == [g \in Indices(NumImages) |->
                         CosineDistance(embedding[index], embedding[g])]
              new == distance_mat'[index + 1]
          IN  /\ Len(distance_mat') = index + 1
              /\ \A p \in 1 .. index : distance_mat'[p] = distance_mat[p]
              /\ \E a \in Indices(NumImages) :
                    /\ \A g \in Indices(NumImages) : raw[a] <= raw[g]
                    /\ \A g \in Indices(NumImages) : new[a] >= raw[g]
                    /\ \E g \in Indices(NumImages) : new[a] = raw[g]
                    /\ \A g \in Indices(NumImages) \ {a} : new[g] = raw[g]
              /\ Cardinality(Overwritten(distance_mat', index)) <= 1]_vars

\* a second or later row has been built, its minimum is tied, and exactly
\* one of its entries differs from 1 - cosine similarity
C21_Witness ==
    /\ reid_pc = "build"
    /\ Len(distance_mat) >= 2
    /\ LET index == Len(distance_mat) - 1 IN
         /\ Cardinality(Overwritten(distance_mat, index)) = 1
         /\ \E g \in Indices(NumImages) \ {index} :
               embedding[g] = embedding[index]

\* C22: the cluster ids allocated by process_dist_mat are exactly
\* 0, 1, ..., k-1 without gaps, in allocation order (the cluster opened by
\* an earlier row has the smaller id), and format_output_dict labels
\* cluster c "ID-" followed by c, without sorting or renumbering.
C22_ClusterIds ==
    /\ reid_pc \in {"resolve", "done", "persisted"} =>
          /\ ClusterIds = Indices(counter)
          /\ \A c, d \in ClusterIds :
                c < d => output_dict[c][1] < output_dict[d][1]
          /\ \A c \in ClusterIds : output_dict[c][1] < r
    /\ reid_pc \in {"done", "persisted"} =>
          /\ DOMAIN reid_output = {<<"ID-", c>> : c \in ClusterIds}
          /\ \A c \in ClusterIds :
                reid_output[<<"ID-", c>>] =
                    [p \in 1 .. Len(output_dict[c]) |->
                        CropName(output_dict[c][p])]

\* a finished run with two or more clusters
C22_Witness ==
    /\ reid_pc = "done"
    /\ counter >= 2
    /\ ClusterIds = 0 .. (counter - 1)
    /\ DOMAIN reid_output = {<<"ID-", c>> : c \in 0 .. (counter - 1)}

\* the indices listed in cluster c
Members(c) == {output_dict[c][p] : p \in 1 .. Len(output_dict[c])}

\* C26: for every self-pool matrix with n >= 2 rows every cluster returned
\* by process_dist_mat holds at least two distinct indices, so that at most
\* n div 2 identities are reported.
C26_NoSingletonCluster ==
    (reid_pc = "done" /\ NumImages >= 2) =>
        /\ \A c \in ClusterIds : Cardinality(Members(c)) >= 2
        /\ Cardinality(ClusterIds) <= NumImages \div 2

\* C29: during identity resolution over n >= 1 crops the percent values
\* passed to the progress callback are an initial 0 followed by one value per
\* matrix row; they are non-decreasing, each lies in 0..100, the last one is
\* 100 once the matrix is complete, and all of them have been passed before
\* the identity mapping is emitted (reid_finished).
C29_ProgressPercents ==
    (reid_pc # "start" /\ NumImages >= 1) =>
        /\ Len(progress_calls) = 1 + Len(distance_mat)
        /\ progress_calls[1] = 0
        /\ \A k \in DOMAIN progress_calls : progress_calls[k] \in 0 .. 100
        /\ \A k \in 2 .. Len(progress_calls) :
              progress_calls[k - 1] <= progress_calls[k]
        /\ Len(distance_mat) = NumImages => Last(progress_calls) = 100
        /\ reid_pc \in {"done", "persisted"} =>
              /\ Len(progress_calls) = 1 + NumImages
              /\ Last(progress_calls) = 100

\* three crops resolved: the callback received 0, 33, 66, 100 and the
\* mapping has been emitted
C29_Witness ==
    /\ reid_pc = "done"
    /\ NumImages = 3
    /\ progress_calls = <<0, 33, 66, 100>>

\* C30: in process_dist_mat the owner of an index, once assigned, never
\* changes for the rest of the pass: no visit of a row gives an assigned
\* index another owner, and no visit removes an index from a cluster's member
\* list (every list only grows at its end).
C30_OwnerNeverChanges ==
    [][(reid_pc = "resolve" /\ reid_pc' = "resolve") =>
          /\ \A i \in Indices(NumImages) :
                keys[i] # -1 => keys'[i] = keys[i]
          /\ \A c \in DOMAIN output_dict :
                /\ c \in DOMAIN output_dict'
                /\ Len(output_dict'[c]) >= Len(output_dict[c])
                /\ \A p \in DOMAIN output_dict[c] :
                      output_dict'[c][p] = output_dict[c][p]]_vars

\* the row visited last and its match were both assigned, to different
\* clusters, and each is still owned by and listed in its own cluster
C30_Witness ==
    /\ reid_pc = "resolve"
    /\ r >= 1
    /\ LET row == r - 1
           m == MatchedIndex(DistMat, NumImages, row)
       IN  /\ keys[row] # -1
           /\ keys[m] # -1
           /\ keys[row] # keys[m]
           /\ row \in Members(keys[row]) /\ row \notin Members(keys[m])
           /\ m \in Members(keys[m]) /\ m \notin Members(keys[row])

\* C16: if any embedding of a run is malformed (wrong dimensionality) the
\* run aborts as a whole: no identity mapping is returned or emitted
\* (reid_finished never fires) and no ReID result row is persisted.
C16_MalformedAborts ==
    (\E i \in Indices(NumImages) : embedding[i] = Malformed) =>
        /\ reid_pc \notin {"done", "persisted"}
        /\ reid_output = "none"
        /\ reid_results = {}

(***************************************************************************)
(* Extraction: UploadPage.py.                                              *)
(*                                                                         *)
(* A run is one ImageProcessingWorker.  Runs is the set of installations   *)
(* of the application that process a batch at the same wall-clock time,    *)
(* each on its own machine (own CPU count, own output directory tree);     *)
(* runs_active is the set of those that exist in a behaviour.              *)
(***************************************************************************)
Runs == {1, 2}

MaxTasks == 2

\* CPU counts of the machines considered: a single core, two cores (half of
\* which is one worker) and four cores (two workers).
CoreCounts == {1, 2, 4}

\* The wall clock advances in ticks of 1/TicksPerSecond seconds.
TicksPerSecond == 2

\* Number of times the clock advances during a behaviour.
MaxTicks == 1

\* Amounts by which the clock advances in one step: one tick, 250 ticks.
TickSteps == {1, 250}


(***************************************************************************)
(* The image files a user can select.  An image file has a folder, a stem  *)
(* and an extension; whether cv2.imread can load it and what the detector  *)
(* finds in it are functions of the file (the detector is deterministic).  *)
(* Confidence is in units of 1/10000; 0 stands for "no box found".         *)
(***************************************************************************)
ImageFile(folder, stem, ext) == [folder |-> folder, stem |-> stem, ext |-> ext]

ImageFiles ==
    { ImageFile("siteA", "IMG_1", ".jpg"),   \* a stoat
      ImageFile("siteB", "IMG_1", ".png"),   \* another camera, same stem
      ImageFile("siteA", "IMG_3", ".jpg"),   \* nothing detected
      ImageFile("siteA", "IMG_4", ".jpg") }  \* cannot be decoded

\* cv2.imread(image_path) is not None
Readable(file) == file.stem # "IMG_4"

\* max_conf of make_inference_detection, 0 if there is no box
DetectedConfidence(file) ==
    CASE file.stem = "IMG_1" /\ file.ext = ".jpg" -> 9001
      [] file.stem = "IMG_1" /\ file.ext = ".png" -> 9004
      [] OTHER -> 0

DetectedLabel(file) == "stoat"

\* group_name of upload_images: one group per folder
GroupName(file) == <<file.folder>>

\* entry of UploadPage.image_list made by upload_images
ImageEntry(file) == <<file, "None", "None", GroupName(file)>>

Users == {"ana"}

\* CPU counts over which the worker budget is evaluated
MaxCores == 8

(***************************************************************************)
(* max_workers.                                                            *)
(***************************************************************************)
\* variant: half of the cores, also on a single core
max_workers_halved(cores) == cores \div 2

\* variant: one worker per core
max_workers_all_cores(cores) == cores

max_workers(cores) == IF cores > 1 THEN cores \div 2 ELSE 1

(***************************************************************************)
(* process_image_func.                                                     *)
(***************************************************************************)
None == <<>>

\* os.path.splitext(os.path.basename(image_path))[0]
image_name(file) == file.stem

\* datetime.now().strftime("%Y%m%d_%H%M%S"): the clock truncated to seconds
UploadDate(t) == t \div TicksPerSecond

\* f"{confidence:.3f}", as a number of thousandths
ConfidenceStr(confidence) == (confidence + 5) \div 10

ArtifactName(kind, user, upload_date, confidence, file) ==
    <<kind, user, upload_date, ConfidenceStr(confidence), image_name(file), ".jpg">>

bbox_image_path(user, upload_date, confidence, file) ==
    <<"bbox_images", ArtifactName("bbox", user, upload_date, confidence, file)>>

crop_image_path(user, upload_date, confidence, file) ==
    <<"crop_images", ArtifactName("crop", user, upload_date, confidence, file)>>

\* generate_thumbnail: os.path.join(thumbnail_dir, os.path.basename(image_path))
thumbnail_path(image_path) == <<"thumbnails", Last(image_path)>>

\* variant: an image that cannot be decoded makes the call raise
EarlyOutcomeRaising(file) ==
    IF ~Readable(file) THEN "raise"
    ELSE IF DetectedConfidence(file) = 0 THEN "none"
    ELSE "detected"

\* what process_image_func does before it writes: "none" for the two early
\* returns of None, "detected" otherwise
EarlyOutcome(file) ==
    IF ~Readable(file) THEN "none"
    ELSE IF DetectedConfidence(file) = 0 THEN "none"
    ELSE "detected"

\* the tuple returned for a detection stamped upload_date
ResultTuple(user, upload_date, entry) ==
    LET file == entry[1]
        confidence == DetectedConfidence(file)
    IN  << bbox_image_path(user, upload_date, confidence, file),
           crop_image_path(user, upload_date, confidence, file),
           confidence,
           entry[4] \o <<DetectedLabel(file)>> >>

\* cv2.imwrite(path, image)
WriteFile(d, path, content) ==
    [p \in DOMAIN d \cup {path} |-> IF p = path THEN content ELSE d[p]]

Future(state, upload_date, result) ==
    [state |-> state, upload_date |-> upload_date, result |-> result]

NumTasks(w) == Cardinality(DOMAIN images[w])

Running(w) ==
    {i \in DOMAIN futures[w] :
        futures[w][i].state \in {"running", "stamped", "bbox", "crop"}}

\* variant: a future counts as done as soon as its call has started
StartedOrDone(f) == f.state # "pending"

\* future.done()
Done(f) == f.state \in {"finished", "raised"}

(***************************************************************************)
(* ImageProcessingWorker.run.                                              *)
(***************************************************************************)
\* variant: the result is put in front of the list
PrependResult(list, result) ==
    IF result # None THEN <<result>> \o list ELSE list

\* variant: what the future returned is appended whatever it is
AppendAnyResult(list, result) == Append(list, result)

\* if result: self.processed_images.append(result)
AppendResult(list, result) ==
    IF result # None THEN Append(list, result) ELSE list

\* elapsed_time, in ticks
ElapsedTime(w) == now - start_time[w]

\* variant: the image just collected still counts as remaining
RemainingTimeOffByOne(elapsed, images_processed, total) ==
    [num |-> elapsed * (total - images_processed + 1),
     den |-> TicksPerSecond * images_processed]

\* remaining_time = elapsed_time / images_processed * (total - images_processed)
\* as a fraction of seconds
RemainingTime(elapsed, images_processed, total) ==
    [num |-> elapsed * (total - images_processed),
     den |-> TicksPerSecond * images_processed]

\* int(remaining_time // 60) and int(remaining_time % 60)
RemainingMinutes(rt) == rt.num \div (rt.den * 60)

RemainingSeconds(rt) == (rt.num \div rt.den) % 60

\* self.progress.emit(i + 1, remaining_time_str); at is the time of emission
ProgressSignal(i, total, elapsed, at) ==
    LET images_processed == i + 1
        rt == RemainingTime(elapsed, images_processed, total)
    IN  [signal |-> "progress",
         completed |-> i + 1,
         of |-> total,
         minutes |-> RemainingMinutes(rt),
         seconds |-> RemainingSeconds(rt),
         at |-> at]

ResultReadySignal(list) == [signal |-> "result_ready", list |-> list]

ProcessingCompleteSignal == [signal |-> "processing_complete"]

(***************************************************************************)
(* Initial states of extraction.                                           *)
(***************************************************************************)
TaskLists ==
    UNION {[Indices(n) -> {ImageEntry(file) : file \in ImageFiles}] :
              n \in 0 .. MaxTasks}

\* progress_bar.setMaximum(len(self.image_list)); progress_bar.setValue(0)
BarAfterProcess(list) ==
    [maximum |-> Cardinality(DOMAIN list), value |-> 0]

\* The runs in active are constructed and not started; the clock reads one
\* tick, so that start_time differs from 0 and a second boundary is one
\* tick away.
ExtractInitFor(active, cores, lists) ==
    /\ runs_active = active
    /\ now = 1
    /\ ticks = 0
    /\ num_cores = cores
    /\ current_user \in [Runs -> Users]
    /\ \A w \in Runs \ active : current_user[w] = "ana"
    /\ images = lists
    /\ worker_pc = [w \in Runs |-> "ready"]
    /\ start_time = [w \in Runs |-> -1]
    /\ futures = [w \in Runs |->
                    [i \in DOMAIN lists[w] |-> Future("pending", 0, None)]]
    /\ collect_index = [w \in Runs |-> 0]
    /\ processed_images = [w \in Runs |-> <<>>]
    /\ signals = [w \in Runs |-> <<>>]
    /\ disk = [w \in Runs |-> <<>>]
    /\ image_list = lists
    /\ results_handled = {}
    /\ page = [w \in Runs |-> w]
    /\ process_button = [p \in Runs |-> lists[p] # <<>>]
    /\ progress_bar = [p \in Runs |-> BarAfterProcess(lists[p])]
    /\ delivered = [w \in Runs |-> 0]
    /\ completed = {}

\* no extraction run exists
ExtractIdle ==
    ExtractInitFor({}, [w \in Runs |-> 1], [w \in Runs |-> <<>>])

\* one run over one of the lists
ExtractInitOver(lists) ==
    \E cores \in CoreCounts : \E list \in lists :
        ExtractInitFor({1}, [w \in Runs |-> IF w = 1 THEN cores ELSE 1],
                       [w \in Runs |-> IF w = 1 THEN list ELSE <<>>])

ExtractInit == ExtractInitOver(TaskLists)

(***************************************************************************)
(* QThread.start(): run() begins, records start_time and submits a future  *)
(* per image.                                                              *)
(***************************************************************************)
RunStart(w) ==
    /\ w \in runs_active
    /\ worker_pc[w] = "ready"
    /\ start_time' = [start_time EXCEPT ![w] = now]
    /\ worker_pc' = [worker_pc EXCEPT ![w] = "collecting"]
    /\ UNCHANGED <<runs_active, now, ticks, num_cores, current_user, images,
                   futures, collect_index, processed_images,
                   signals, disk, image_list,
                   results_handled>>
    /\ UNCHANGED page_vars
    /\ UNCHANGED reid_vars

\* A pool process takes the oldest pending call when fewer than max_workers
\* calls are being executed.
TaskStart(w, i) ==
    /\ w \in runs_active
    /\ worker_pc[w] = "collecting"
    /\ i \in DOMAIN futures[w]
    /\ futures[w][i].state = "pending"
    /\ \A j \in DOMAIN futures[w] : j < i => futures[w][j].state # "pending"
    /\ Cardinality(Running(w)) < max_workers(num_cores[w])
    /\ futures' = [futures EXCEPT ![w][i].state = "running"]
    /\ UNCHANGED <<runs_active, now, ticks, num_cores, current_user, images,
                   worker_pc, start_time, collect_index, processed_images,
                   signals, disk, image_list,
                   results_handled>>
    /\ UNCHANGED page_vars
    /\ UNCHANGED reid_vars

\* process_image_func up to the computation of the artifact paths: imread,
\* detection_main, the early returns, datetime.now().
TaskDetect(w, i) ==
    /\ w \in runs_active
    /\ i \in DOMAIN futures[w]
    /\ futures[w][i].state = "running"
    /\ LET outcome == EarlyOutcome(images[w][i][1]) IN
         futures' = [futures EXCEPT ![w][i] =
                        CASE outcome = "none" -> Future("finished", 0, None)
                          [] outcome = "detected" ->
                                Future("stamped", UploadDate(now), None)
                          [] OTHER -> Future("raised", 0, None)]
    /\ UNCHANGED <<runs_active, now, ticks, num_cores, current_user, images,
                   worker_pc, start_time, collect_index, processed_images,
                   signals, disk, image_list,
                   results_handled>>
    /\ UNCHANGED page_vars
    /\ UNCHANGED reid_vars

TaskResult(w, i) ==
    ResultTuple(current_user[w], futures[w][i].upload_date, images[w][i])

\* cv2.imwrite(bbox_image_path, bbox_image)
TaskWriteBbox(w, i) ==
    /\ w \in runs_active
    /\ i \in DOMAIN futures[w]
    /\ futures[w][i].state = "stamped"
    /\ disk' = [disk EXCEPT ![w] = WriteFile(@, TaskResult(w, i)[1], i)]
    /\ futures' = [futures EXCEPT ![w][i].state = "bbox"]
    /\ UNCHANGED <<runs_active, now, ticks, num_cores, current_user, images,
                   worker_pc, start_time, collect_index, processed_images,
                   signals, image_list,
                   results_handled>>
    /\ UNCHANGED page_vars
    /\ UNCHANGED reid_vars

\* cv2.imwrite(crop_image_path, crop_image)
TaskWriteCrop(w, i) ==
    /\ w \in runs_active
    /\ i \in DOMAIN futures[w]
    /\ futures[w][i].state = "bbox"
    /\ disk' = [disk EXCEPT ![w] = WriteFile(@, TaskResult(w, i)[2], i)]
    /\ futures' = [futures EXCEPT ![w][i].state = "crop"]
    /\ UNCHANGED <<runs_active, now, ticks, num_cores, current_user, images,
                   worker_pc, start_time, collect_index, processed_images,
                   signals, image_list,
                   results_handled>>
    /\ UNCHANGED page_vars
    /\ UNCHANGED reid_vars

\* generate_thumbnail(bbox_image_path, thumbnail_dir) reads the overlay back
\* from disk and writes its thumbnail; then process_image_func returns.
TaskThumbnail(w, i) ==
    /\ w \in runs_active
    /\ i \in DOMAIN futures[w]
    /\ futures[w][i].state = "crop"
    /\ LET bbox == TaskResult(w, i)[1] IN
         disk' = [disk EXCEPT ![w] =
                     WriteFile(@, thumbnail_path(bbox), disk[w][bbox])]
    /\ futures' = [futures EXCEPT ![w][i] =
                      Future("finished", @.upload_date, TaskResult(w, i))]
    /\ UNCHANGED <<runs_active, now, ticks, num_cores, current_user, images,
                   worker_pc, start_time, collect_index, processed_images,
                   signals, image_list,
                   results_handled>>
    /\ UNCHANGED page_vars
    /\ UNCHANGED reid_vars

\* One iteration of "for i, future in enumerate(futures)": future.result()
\* blocks until the future is done and re-raises what the call raised.
Collect(w) ==
    /\ w \in runs_active
    /\ worker_pc[w] = "collecting"
    /\ collect_index[w] < NumTasks(w)
    /\ LET i == collect_index[w]
           future == futures[w][i]
       IN  /\ Done(future)
           /\ IF future.state = "raised"
              THEN /\ worker_pc' = [worker_pc EXCEPT ![w] = "failed"]
                   /\ UNCHANGED <<processed_images, signals,
                                  collect_index>>
              ELSE /\ processed_images' =
                        [processed_images EXCEPT
                            ![w] = AppendResult(@, future.result)]
                   /\ signals' =
                        [signals EXCEPT
                            ![w] = Append(@, ProgressSignal(i, NumTasks(w),
                                                            ElapsedTime(w), now))]
                   /\ collect_index' = [collect_index EXCEPT ![w] = i + 1]
                   /\ UNCHANGED worker_pc
    /\ UNCHANGED <<runs_active, now, ticks, num_cores, current_user, images,
                   start_time, futures, disk, image_list,
                   results_handled>>
    /\ UNCHANGED page_vars
    /\ UNCHANGED reid_vars

\* variant: the results are emitted once every future is done, without
\* waiting for the collecting loop
FinishUncollected(w) ==
    /\ w \in runs_active
    /\ worker_pc[w] = "collecting"
    /\ \A i \in DOMAIN futures[w] : Done(futures[w][i])
    /\ signals' = [signals EXCEPT ![w] =
                      @ \o <<ResultReadySignal(processed_images[w]),
                             ProcessingCompleteSignal>>]
    /\ worker_pc' = [worker_pc EXCEPT ![w] = "done"]
    /\ UNCHANGED <<runs_active, now, ticks, num_cores, current_user, images,
                   start_time, futures, collect_index, processed_images,
                   disk, image_list,
                   results_handled>>
    /\ UNCHANGED page_vars
    /\ UNCHANGED reid_vars

\* End of the loop: the executor is shut down (every future is done), then
\* result_ready and processing_complete are emitted.
Finish(w) ==
    /\ w \in runs_active
    /\ worker_pc[w] = "collecting"
    /\ collect_index[w] = NumTasks(w)
    /\ \A i \in DOMAIN futures[w] : Done(futures[w][i])
    /\ signals' = [signals EXCEPT ![w] =
                      @ \o <<ResultReadySignal(processed_images[w]),
                             ProcessingCompleteSignal>>]
    /\ worker_pc' = [worker_pc EXCEPT ![w] = "done"]
    /\ UNCHANGED <<runs_active, now, ticks, num_cores, current_user, images,
                   start_time, futures, collect_index, processed_images,
                   disk, image_list,
                   results_handled>>
    /\ UNCHANGED page_vars
    /\ UNCHANGED reid_vars

\* UploadPage.handle_processed_images, the slot of result_ready
handle_processed_images(w) ==
    /\ w \in runs_active
    /\ worker_pc[w] = "done"
    /\ w \notin results_handled
    /\ image_list' = [image_list EXCEPT ![page[w]] = processed_images[w]]
    /\ results_handled' = results_handled \cup {w}
    /\ UNCHANGED <<runs_active, now, ticks, num_cores, current_user, images,
                   worker_pc, start_time, futures, collect_index,
                   processed_images, signals, disk>>
    /\ UNCHANGED page_vars
    /\ UNCHANGED reid_vars

\* The wall clock advances once every run of the behaviour has started.
Tick ==
    /\ ticks < MaxTicks
    /\ \A w \in runs_active : worker_pc[w] # "ready"
    /\ \E w \in runs_active : worker_pc[w] = "collecting"
    /\ \E d \in TickSteps : now' = now + d
    /\ ticks' = ticks + 1
    /\ UNCHANGED <<runs_active, num_cores, current_user, images, worker_pc,
                   start_time, futures, collect_index, processed_images,
                   signals, disk, image_list,
                   results_handled>>
    /\ UNCHANGED page_vars
    /\ UNCHANGED reid_vars

ExtractNext ==
    \/ \E w \in Runs : RunStart(w)
    \/ \E w \in Runs : \E i \in Indices(MaxTasks) : TaskStart(w, i)
    \/ \E w \in Runs : \E i \in Indices(MaxTasks) : TaskDetect(w, i)
    \/ \E w \in Runs : \E i \in Indices(MaxTasks) : TaskWriteBbox(w, i)
    \/ \E w \in Runs : \E i \in Indices(MaxTasks) : TaskWriteCrop(w, i)
    \/ \E w \in Runs : \E i \in Indices(MaxTasks) : TaskThumbnail(w, i)
    \/ \E w \in Runs : Collect(w)
    \/ \E w \in Runs : Finish(w)
    \/ \E w \in Runs : handle_processed_images(w)
    \/ Tick

ProgressSignals(w) ==
    SelectSeq(signals[w], LAMBDA sig : sig.signal = "progress")

(***************************************************************************)
(* The Process button and the slots of the worker's signals (GUI thread).  *)
(* Signals of a worker reach their slots in emission order.                *)
(***************************************************************************)
\* UploadPage.process_images on page p, creating and starting worker w.  The
\* clicked signal needs an enabled button; an empty list returns early.  The
\* user is taken to click only while the list still holds uploaded images.
process_images(p, w) ==
    /\ process_button[p]
    /\ image_list[p] # <<>>
    /\ w \notin runs_active
    /\ \A v \in results_handled : page[v] # p
    /\ runs_active' = runs_active \cup {w}
    /\ page' = [page EXCEPT ![w] = p]
    /\ images' = [images EXCEPT ![w] = image_list[p]]
    /\ futures' = [futures EXCEPT ![w] =
                      [i \in DOMAIN image_list[p] |->
                          Future("pending", 0, None)]]
    /\ progress_bar' = [progress_bar EXCEPT ![p] = BarAfterProcess(image_list[p])]
    /\ UNCHANGED <<now, ticks, num_cores, current_user, worker_pc, start_time,
                   collect_index, processed_images, signals, disk,
                   image_list, results_handled, process_button, delivered,
                   completed>>
    /\ UNCHANGED reid_vars

\* UploadPage.update_progress(index, value), the slot of progress: index is
\* the first argument of the emission, i + 1
update_progress(w) ==
    /\ w \in runs_active
    /\ delivered[w] < Len(ProgressSignals(w))
    /\ LET index == ProgressSignals(w)[delivered[w] + 1].completed IN
         progress_bar' = [progress_bar EXCEPT ![page[w]].value = index + 1]
    /\ delivered' = [delivered EXCEPT ![w] = @ + 1]
    /\ UNCHANGED <<runs_active, now, ticks, num_cores, current_user, images,
                   worker_pc, start_time, futures, collect_index,
                   processed_images, signals, disk, image_list,
                   results_handled, page, process_button, completed>>
    /\ UNCHANGED reid_vars

\* UploadPage.on_processing_complete, the slot of processing_complete:
\* update_button_states('upload') or ('save'), both of which disable the
\* Process button
on_processing_complete(w) ==
    /\ w \in results_handled
    /\ w \notin completed
    /\ delivered[w] = Len(ProgressSignals(w))
    /\ completed' = completed \cup {w}
    /\ process_button' = [process_button EXCEPT ![page[w]] = FALSE]
    /\ UNCHANGED <<runs_active, now, ticks, num_cores, current_user, images,
                   worker_pc, start_time, futures, collect_index,
                   processed_images, signals, disk, image_list,
                   results_handled, page, progress_bar, delivered>>
    /\ UNCHANGED reid_vars

\* no identity-resolution run exists
ReIDIdle ==
    /\ reid_pc = "idle"
    /\ image_path_list = <<>>
    /\ embedding = <<>>
    /\ distance_mat = <<>>
    /\ progress_calls = <<>>
    /\ r = 0
    /\ keys = <<>>
    /\ output_dict = EmptyDict
    /\ counter = 0
    /\ reid_output = "none"
    /\ reid_results = {}

(***************************************************************************)
(* Properties of extraction.                                               *)
(***************************************************************************)
\* the tasks for which process_image_func returns a tuple
Succeeds(w, i) ==
    /\ Readable(images[w][i][1])
    /\ DetectedConfidence(images[w][i][1]) # 0

SuccessfulTasks(w) == {i \in DOMAIN images[w] : Succeeds(w, i)}

\* the p-th successful task, in submission order
NthSuccessful(w, p) ==
    CHOOSE i \in SuccessfulTasks(w) :
        Cardinality({j \in SuccessfulTasks(w) : j < i}) = p - 1

HasDelivered(w) ==
    \E p \in 1 .. Len(signals[w]) : signals[w][p].signal = "result_ready"

\* the list carried by result_ready
Delivered(w) ==
    signals[w][CHOOSE p \in 1 .. Len(signals[w]) :
                   signals[w][p].signal = "result_ready"].list

\* the tasks that have computed their artifact paths
Stamped(w) ==
    {i \in DOMAIN futures[w] :
        \/ futures[w][i].state \in {"stamped", "bbox", "crop"}
        \/ futures[w][i].state = "finished" /\ futures[w][i].result # <<>>}

\* C3 as stated: the delivered sequence has result[i] corresponding to T[i]
\* for every index i, whether or not some tasks fail.
C3_ResultAtTaskIndex ==
    \A w \in runs_active :
        HasDelivered(w) =>
            /\ Len(Delivered(w)) = NumTasks(w)
            /\ \A i \in DOMAIN images[w] :
                  Delivered(w)[i + 1] = futures[w][i].result

\* C3 amended: the delivered sequence holds the results of exactly the
\* tasks that succeeded, in submission order: its p-th entry is the result
\* of the p-th successful task (so result[i] corresponds to T[i] when
\* no task up to i failed).
C3_SubmissionOrderOfSuccesses ==
    \A w \in runs_active :
        HasDelivered(w) =>
            /\ Len(Delivered(w)) = Cardinality(SuccessfulTasks(w))
            /\ \A p \in 1 .. Len(Delivered(w)) :
                  Delivered(w)[p] = futures[w][NthSuccessful(w, p)].result
            /\ (SuccessfulTasks(w) = DOMAIN images[w]) =>
                  \A i \in DOMAIN images[w] :
                      Delivered(w)[i + 1] = futures[w][i].result

\* a run delivered two different results, the later task stamped in an
\* earlier second than the earlier one
C3_Witness ==
    \E w \in runs_active :
        /\ HasDelivered(w)
        /\ Len(Delivered(w)) = 2
        /\ Delivered(w)[1] # Delivered(w)[2]
        /\ futures[w][1].upload_date < futures[w][0].upload_date

\* C4: with a deterministic detector the per-task outcomes of a run over T
\* (results and artifact paths included) are the same for worker budget 1
\* and for a budget N > 1.
C4_BudgetInvariance ==
    (/\ runs_active = Runs
     /\ \A w \in Runs : HasDelivered(w)) =>
        \A v, w \in Runs : Delivered(v) = Delivered(w)

\* C5: a task that fails to load or has no detection does not abort the
\* run: the run never fails, the failed task gets its progress emission
\* once it is collected, every other task is still executed and collected,
\* and the run ends with result_ready and processing_complete.
C5_FailureDoesNotAbort ==
    \A w \in runs_active :
        /\ worker_pc[w] # "failed"
        /\ \A i \in DOMAIN images[w] :
              (~Succeeds(w, i) /\ collect_index[w] > i) =>
                  \E p \in 1 .. Len(signals[w]) :
                      /\ signals[w][p].signal = "progress"
                      /\ signals[w][p].completed = i + 1
        /\ worker_pc[w] = "done" =>
              /\ collect_index[w] = NumTasks(w)
              /\ \A i \in DOMAIN images[w] : futures[w][i].state = "finished"
              /\ \A i \in SuccessfulTasks(w) :
                    \E p \in 1 .. Len(processed_images[w]) :
                        processed_images[w][p] = futures[w][i].result
              /\ Len(signals[w]) = NumTasks(w) + 2
              /\ signals[w][NumTasks(w) + 1] =
                    ResultReadySignal(processed_images[w])
              /\ signals[w][NumTasks(w) + 2] = ProcessingCompleteSignal

\* a finished run whose first task could not be loaded or had no detection
\* and whose second task succeeded
C5_Witness ==
    \E w \in runs_active :
        /\ worker_pc[w] = "done"
        /\ NumTasks(w) >= 2
        /\ ~Succeeds(w, 0)
        /\ Succeeds(w, 1)
        /\ Len(processed_images[w]) = 1

\* the crops written so far: the tasks that have executed
\* cv2.imwrite(crop_image_path, crop_image)
CropsWritten(w) ==
    {i \in DOMAIN futures[w] :
        \/ futures[w][i].state = "crop"
        \/ futures[w][i].state = "finished" /\ futures[w][i].result # <<>>}

C7_DistinctArtifactPaths ==
    \A w \in runs_active :
        \A i, j \in Stamped(w) :
            i # j =>
                /\ TaskResult(w, i)[1] # TaskResult(w, j)[1]
                /\ TaskResult(w, i)[2] # TaskResult(w, j)[2]
                /\ thumbnail_path(TaskResult(w, i)[1]) #
                       thumbnail_path(TaskResult(w, j)[1])

\* C8: the progress emissions of a run carry completed = 1, 2, ... in that
\* order, one per collected task, n of them when the run ends, and the
\* emission with completed = k is made only when tasks 0..k-1 have finished.
C8_ProgressInSubmissionOrder ==
    \A w \in runs_active :
        LET ps == ProgressSignals(w) IN
            /\ Len(ps) = collect_index[w]
            /\ Len(ps) <= NumTasks(w)
            /\ \A k \in 1 .. Len(ps) :
                  /\ ps[k].completed = k
                  /\ \A i \in 0 .. (k - 1) : futures[w][i].state = "finished"
            /\ worker_pc[w] = "done" => Len(ps) = NumTasks(w)
            /\ \A p \in 1 .. Len(signals[w]) :
                  signals[w][p].signal = "progress" => p <= Len(ps)

\* both emissions made, the second task stamped in an earlier second than
\* the first (it ran ahead of it)
C8_Witness ==
    \E w \in runs_active :
        /\ Len(ProgressSignals(w)) = 2
        /\ 0 \in Stamped(w) /\ 1 \in Stamped(w)
        /\ futures[w][1].upload_date < futures[w][0].upload_date

\* C9: the k-th progress emission reports, in whole minutes and seconds,
\* eta = (elapsed / k) * (n - k) rounded down, k counting failed tasks too;
\* the eta is never negative and is 0 for the last task.
C9_Eta ==
    \A w \in runs_active :
        LET ps == ProgressSignals(w)
            n == NumTasks(w)
        IN  \A k \in 1 .. Len(ps) :
                LET elapsed == ps[k].at - start_time[w] IN
                    /\ ps[k].completed = k
                    /\ ps[k].minutes >= 0
                    /\ ps[k].seconds \in 0 .. 59
                    /\ ps[k].minutes * 60 + ps[k].seconds =
                          (elapsed * (n - k)) \div (k * TicksPerSecond)
                    /\ k = n => ps[k].minutes = 0 /\ ps[k].seconds = 0

\* an emission for a failed first task that reports more than a minute
C9_Witness ==
    \E w \in runs_active :
        /\ Len(ProgressSignals(w)) >= 1
        /\ ~Succeeds(w, 0)
        /\ ProgressSignals(w)[1].minutes >= 1
        /\ ProgressSignals(w)[1].seconds > 0

\* the tasks whose call of process_image_func has not yet returned from the
\* detector
Detecting(w) == {i \in DOMAIN futures[w] : futures[w][i].state = "running"}

\* C17: for every CPU count c >= 1 the worker budget is 1 when c = 1 and
\* c div 2 otherwise, hence at least 1; and at every moment the number of
\* tasks being processed by the pool, detector invocations included, is at
\* most the budget.
C17_Budget ==
    /\ \A c \in 1 .. MaxCores :
          /\ max_workers(c) = (IF c = 1 THEN 1 ELSE c \div 2)
          /\ max_workers(c) >= 1
    /\ \A w \in runs_active :
          LET budget == IF num_cores[w] = 1 THEN 1 ELSE num_cores[w] \div 2
          IN  /\ Cardinality(Detecting(w)) <= budget
              /\ Cardinality(Running(w)) <= budget

\* two cores, budget one: the detector runs on one image while the next
\* image waits for the worker
C17_Witness ==
    \E w \in runs_active :
        /\ num_cores[w] = 2
        /\ Cardinality(Detecting(w)) = 1
        /\ \E i \in DOMAIN futures[w] : futures[w][i].state = "pending"

\* C23: as long as the detector invocation of task i has not returned, no
\* progress emission with completed > i has occurred and the result list has
\* not been delivered, even when the invocations of all other tasks, later
\* ones included, have finished.
C23_StuckDetectorStalls ==
    \A w \in runs_active : \A i \in Detecting(w) :
        /\ \A p \in 1 .. Len(ProgressSignals(w)) :
              ProgressSignals(w)[p].completed <= i
        /\ ~HasDelivered(w)
        /\ worker_pc[w] # "done"
        /\ w \notin results_handled

\* the detector is still running on task 0 while every later task has
\* finished; nothing has been emitted
C23_Witness ==
    \E w \in runs_active :
        /\ NumTasks(w) >= 2
        /\ 0 \in Detecting(w)
        /\ \A i \in DOMAIN futures[w] \ {0} : futures[w][i].state = "finished"
        /\ signals[w] = <<>>

\* positions of the signals of a kind among those emitted by run w
SignalPositions(w, kind) ==
    {p \in 1 .. Len(signals[w]) : signals[w][p].signal = kind}

\* C24: in every extraction run result_ready is emitted once (never twice,
\* and once when the run has ended), only after the progress emission for
\* the last submitted task; processing_complete is emitted after
\* result_ready, and no progress emission follows result_ready.
C24_SignalOrder ==
    \A w \in runs_active :
        LET ready == SignalPositions(w, "result_ready")
            complete == SignalPositions(w, "processing_complete")
            progress == SignalPositions(w, "progress")
        IN  /\ Cardinality(ready) <= 1
            /\ Cardinality(complete) <= 1
            /\ worker_pc[w] = "done" =>
                  Cardinality(ready) = 1 /\ Cardinality(complete) = 1
            /\ \A p \in ready :
                  /\ \A q \in progress : q < p
                  /\ Cardinality(progress) = NumTasks(w)
                  /\ NumTasks(w) >= 1 =>
                        \E q \in progress :
                            signals[w][q].completed = NumTasks(w)
            /\ \A p \in complete : \E q \in ready : q < p

\* a run over two images has emitted its two progress signals, result_ready
\* and processing_complete
C24_Witness ==
    \E w \in runs_active :
        /\ NumTasks(w) = 2
        /\ worker_pc[w] = "done"
        /\ Len(signals[w]) = 4
        /\ signals[w][3].signal = "result_ready"
        /\ signals[w][4].signal = "processing_complete"

\* C25: when every detector invocation terminates (with a result or with
\* none) and the worker thread and the pool processes are scheduled fairly,
\* every extraction run, whatever its number of tasks and its budget,
\* eventually emits result_ready and processing_complete.
C25_EventuallyDelivered ==
    <>(\A w \in runs_active :
          /\ SignalPositions(w, "result_ready") # {}
          /\ SignalPositions(w, "processing_complete") # {})

\* a run over two images on a single core (budget 1), one of them without a
\* detection, has emitted result_ready and processing_complete
C25_Witness ==
    \E w \in runs_active :
        /\ NumTasks(w) = 2
        /\ max_workers(num_cores[w]) = 1
        /\ \E i \in DOMAIN images[w] : ~Succeeds(w, i)
        /\ SignalPositions(w, "result_ready") # {}
        /\ SignalPositions(w, "processing_complete") # {}

\* the workers of page p whose run is in flight: created by process_images,
\* on_processing_complete not yet run
InFlight(p) == {w \in runs_active : page[w] = p /\ w \notin completed}

\* C27: at most one extraction run of a page is in flight at a time: from
\* the start of an ImageProcessingWorker by process_images until
\* on_processing_complete has run, Process cannot start a second worker over
\* the same image list.
C27_SingleRunInFlight ==
    \A p \in Runs : Cardinality(InFlight(p)) <= 1

\* C28: after the k-th progress emission of a run over n images has reached
\* update_progress, the progress-bar value set equals k, and the value set
\* never exceeds the bar's maximum n.
C28_BarValue ==
    \A w \in runs_active :
        LET bar == progress_bar[page[w]] IN
            /\ delivered[w] >= 1 => bar.value = delivered[w]
            /\ bar.value <= bar.maximum

\* C12: on empty input neither operation raises; extraction delivers an
\* empty result list without emitting any progress signal, and identity
\* resolution returns an empty mapping without any per-row progress callback
\* (the only value handed to the callback is ReIDWorker's initial 0).
C12_EmptyInput ==
    /\ NumImages = 0 =>
          /\ reid_pc # "failed"
          /\ \A p \in 1 .. Len(progress_calls) : p = 1 /\ progress_calls[p] = 0
          /\ reid_pc = "done" => DOMAIN reid_output = {}
    /\ \A w \in runs_active :
          NumTasks(w) = 0 =>
              /\ worker_pc[w] # "failed"
              /\ ProgressSignals(w) = <<>>
              /\ HasDelivered(w) => Delivered(w) = <<>>
              /\ worker_pc[w] = "done" =>
                    signals[w] = <<ResultReadySignal(<<>>),
                                   ProcessingCompleteSignal>>

\* both operations have returned on empty input
C12_Witness ==
    /\ NumImages = 0
    /\ reid_pc = "done"
    /\ reid_output = EmptyDict
    /\ progress_calls = <<0>>
    /\ \E w \in runs_active :
          /\ NumTasks(w) = 0
          /\ worker_pc[w] = "done"
          /\ w \in results_handled
          /\ image_list[w] = <<>>

\* Identity resolution
Init == ReIDInit /\ ExtractIdle

Next == ReIDNext

Spec == Init /\ [][Next]_vars

\* Extraction, one run
InitExtract == ReIDIdle /\ ExtractInit

NextExtract == ExtractNext

SpecExtract == InitExtract /\ [][NextExtract]_vars

\* the steps of the worker thread of run w
WorkerThread(w) == RunStart(w) \/ Collect(w) \/ Finish(w)

\* the steps of the pool on call i of run w
PoolTask(w, i) ==
    \/ TaskStart(w, i)
    \/ TaskDetect(w, i)
    \/ TaskWriteBbox(w, i)
    \/ TaskWriteCrop(w, i)
    \/ TaskThumbnail(w, i)

\* Extraction, one run, with the scheduling the platform provides: the
\* started QThread runs, and a pool process that can take or continue a
\* call does so.  The steps of a thread, and those of a call, are
\* sequential.  The clock and the slot of result_ready need no fairness.
FairExtract ==
    \A w \in Runs :
        /\ WF_vars(WorkerThread(w))
        /\ \A i \in Indices(MaxTasks) : WF_vars(PoolTask(w, i))

\* the batches made of one image with a detection and one without
FairTaskLists ==
    {list \in TaskLists :
        \A i \in DOMAIN list :
            list[i][1] \in {ImageFile("siteA", "IMG_1", ".jpg"),
                            ImageFile("siteA", "IMG_3", ".jpg")}}

InitExtractFair == ReIDIdle /\ ExtractInitOver(FairTaskLists)

SpecExtractFair == InitExtractFair /\ [][NextExtract]_vars /\ FairExtract


\* the batches of two images in which every image is detected
PairTaskLists ==
    {list \in TaskLists :
        /\ DOMAIN list = {0, 1}
        /\ \A i \in DOMAIN list :
              /\ Readable(list[i][1])
              /\ DetectedConfidence(list[i][1]) # 0}

\* Extraction of the same batch by the same user at the same time on a
\* single-core machine (one worker) and on a four-core machine (two workers)
PairInit ==
    \E list \in PairTaskLists :
        /\ ExtractInitFor(Runs, [w \in Runs |-> IF w = 1 THEN 1 ELSE 4],
                          [w \in Runs |-> list])
        /\ \A v, w \in Runs : current_user[v] = current_user[w]

InitPair == ReIDIdle /\ PairInit

SpecPair == InitPair /\ [][NextExtract]_vars


\* One upload page with uploaded images and the Process button enabled, no
\* worker yet; the workers it creates run on the page's machine.  (The
\* bar's range before the first process_images plays no part.)
PageTaskLists ==
    {list \in TaskLists :
        /\ list # <<>>
        /\ \A i \in DOMAIN list :
              list[i][1] \in {ImageFile("siteA", "IMG_1", ".jpg"),
                              ImageFile("siteA", "IMG_3", ".jpg")}}

PageInit ==
    \E cores \in CoreCounts : \E list \in PageTaskLists :
        ExtractInitFor({}, [w \in Runs |-> cores],
                       [w \in Runs |-> IF w = 1 THEN list ELSE <<>>])

InitPage == ReIDIdle /\ PageInit

\* The clock is not advanced: elapsed time plays no part in the page's state.
NextPage ==
    \/ \E w \in Runs : process_images(1, w)
    \/ \E w \in Runs : RunStart(w)
    \/ \E w \in Runs : \E i \in Indices(MaxTasks) : TaskStart(w, i)
    \/ \E w \in Runs : \E i \in Indices(MaxTasks) : TaskDetect(w, i)
    \/ \E w \in Runs : \E i \in Indices(MaxTasks) : TaskWriteBbox(w, i)
    \/ \E w \in Runs : \E i \in Indices(MaxTasks) : TaskWriteCrop(w, i)
    \/ \E w \in Runs : \E i \in Indices(MaxTasks) : TaskThumbnail(w, i)
    \/ \E w \in Runs : Collect(w)
    \/ \E w \in Runs : Finish(w)
    \/ \E w \in Runs : update_progress(w)
    \/ \E w \in Runs :
          delivered[w] = Len(ProgressSignals(w)) /\ handle_processed_images(w)
    \/ \E w \in Runs : on_processing_complete(w)

SpecPage == InitPage /\ [][NextPage]_vars

\* An identity-resolution run and an extraction run side by side, each over
\* at most one input (a bare crop name with a well-formed embedding)
InitBoth ==
    /\ ReIDInitOver(1, {0}, {0})
    /\ ExtractInitOver(UNION {[Indices(n) -> {ImageEntry(file) :
                                                file \in ImageFiles}] :
                                 n \in 0 .. 1})

NextBoth == ReIDNext \/ ExtractNext

SpecBoth == InitBoth /\ [][NextBoth]_vars

====
